---- MODULE Spec2Model ----
(***************************************************************************)
(* Fragment-aware span redaction engine of redaction_xml: the span merger, *)
(* the fragment masker, the match finder with its rule registry and        *)
(* validators, the per-format node collectors and the per-part redaction   *)
(* loop of redact_docx / redact_hwpx / redact_pptx / redact_xlsx.          *)
(*                                                                         *)
(* Conventions.  A Python str is a sequence of one-character strings.      *)
(* Python's None is the value None below.  Offsets and spans are 0-based   *)
(* and half-open as in the source: the character at offset k of text t is  *)
(* t[k+1].  A span is <<start, end>>; a match is <<pname, <<s, e>>, val>>; *)
(* an entry of a nodes list is <<node, txt>>.                              *)
(***************************************************************************)
EXTENDS Integers, Sequences, FiniteSets, TLC

VARIABLES
    today,      \* datetime.today() as <<year, month, day>>
    mergeCall,  \* one call of _merge_overlaps: its input and its result
    maskCall,   \* one call of _apply_replacements_to_nodes on a flat node list
    findCall,   \* one find -> merge -> mask -> find pass over one logical unit
    cityCall,   \* one call of is_valid_phone_city
    fmt,        \* which redact_* function runs: "docx", "hwpx", "pptx", "xlsx"
    tag,        \* the XML part: tag[n] is the local name of element n
    parent,     \* parent[n] is the parent element of n (0 for the root)
    nodeText,   \* nodeText[n] is element n's .text (None when absent)
    nodeSpace,  \* nodeSpace[n]: element n carries xml:space="preserve"
    units,      \* the logical units of the part, in processing order
    ui,         \* index of the next unit to process
    total,      \* total / total_spans of the run
    changed,    \* changed / file_changed of the part
    writes,     \* how many times the part was serialized back to disk
    last,       \* what the latest loop iteration saw and did
    cardCall,   \* one call of is_valid_card
    blocks,     \* history: the node positions each counted span covered
    tmpDir,     \* the shared docx_tmp directory: whether it exists, its files
    jobs,       \* the invocations of redact_docx that share the directory
    partRun,    \* one run of a redact_* function over the parts of a document
    pc          \* position of the run

vars == <<today, partRun, jobs, tmpDir, blocks, cardCall, mergeCall, maskCall,
          findCall, cityCall, fmt, tag, parent, nodeText, nodeSpace, units,
          ui, total, changed, writes, last, pc>>

docVars == <<fmt, tag, parent, nodeText, nodeSpace, units, ui, total, changed,
             writes, last, pc>>

None == <<"None">>

\* no temp directory on disk
NoTmp == [exists |-> FALSE, files |-> {}]
Idle == [pc |-> "idle"]
Formats == {"docx", "hwpx", "pptx", "xlsx"}

Max2(a, b) == IF a >= b THEN a ELSE b
Min2(a, b) == IF a <= b THEN a ELSE b

RECURSIVE Concat(_)
\* "".join(parts)
Concat(parts) ==
    IF parts = <<>> THEN <<>> ELSE Head(parts) \o Concat(Tail(parts))

\* text[a:b] for 0 <= a, b
Slice(text, a, b) == SubSeq(text, a + 1, Min2(b, Len(text)))

(***************************************************************************)
(* Span merger                                                             *)
(***************************************************************************)

\* Python's tuple order on (s, e) pairs
SpanLE(a, b) == a[1] < b[1] \/ (a[1] = b[1] /\ a[2] <= b[2])

RECURSIVE InsertSpan(_, _)
InsertSpan(x, sorted) ==
    IF sorted = <<>> THEN <<x>>
    ELSE IF SpanLE(x, Head(sorted)) THEN <<x>> \o sorted
    ELSE <<Head(sorted)>> \o InsertSpan(x, Tail(sorted))

RECURSIVE SortSpans(_)
\* sorted(spans) / spans.sort()
SortSpans(spans) ==
    IF spans = <<>> THEN <<>>
    ELSE InsertSpan(Head(spans), SortSpans(Tail(spans)))

\* faulty variant: the loop body without the max(): the later span's end wins
MergeStepNoMax(merged, sp) ==
    LET prev == merged[Len(merged)] IN
    IF sp[1] <= prev[2]
    THEN [merged EXCEPT ![Len(merged)] = <<prev[1], sp[2]>>]
    ELSE Append(merged, sp)

\* faulty variant: strict comparison, touching spans are kept apart
MergeStepStrict(merged, sp) ==
    LET prev == merged[Len(merged)] IN
    IF sp[1] < prev[2]
    THEN [merged EXCEPT ![Len(merged)] = <<prev[1], Max2(prev[2], sp[2])>>]
    ELSE Append(merged, sp)

\* one iteration of "for s, e in spans[1:]"
MergeStep(merged, sp) ==
    LET prev == merged[Len(merged)] IN
    IF sp[1] <= prev[2]
    THEN [merged EXCEPT ![Len(merged)] = <<prev[1], Max2(prev[2], sp[2])>>]
    ELSE Append(merged, sp)

RECURSIVE MergeLoop(_, _)
MergeLoop(merged, rest) ==
    IF rest = <<>> THEN merged
    ELSE MergeLoop(MergeStep(merged, Head(rest)), Tail(rest))

_merge_overlaps(spans) ==
    IF spans = <<>> THEN <<>>
    ELSE LET s == SortSpans(spans) IN MergeLoop(<<Head(s)>>, Tail(s))

(***************************************************************************)
(* Fragment-aware masker                                                   *)
(***************************************************************************)

\* KEEP of docx_redaction.py and hwpx_redaction.py: the hyphen and the
\* Unicode dashes, each code point written as one character name
KEEP == {"-", "U+2010", "U+2011", "U+2012", "U+2013", "U+2014", "U+2015",
         "U+2212"}

\* str.isspace() on the characters the model uses
IsSpace(ch) == ch \in {" ", "\t", "\n", "U+00A0"}

\* faulty variant: the docx/hwpx policy applied to every format
ExemptAllFormats(f, ch) == ch \in KEEP \/ IsSpace(ch)

\* the character test inside the "".join(...) of each variant
Exempt(f, ch) ==
    IF f \in {"docx", "hwpx"} THEN ch \in KEEP \/ IsSpace(ch) ELSE ch = "-"

\* faulty variant: the mask argument is ignored
MaskCharStar(mask) == "*"

\* mask_char = (mask or "*")[0]
MaskChar(mask) == IF mask = None \/ mask = <<>> THEN "*" ELSE mask[1]

\* "".join(ch if exempt else mask_char for ch in piece)
MaskPiece(f, piece, mask_char) ==
    [k \in 1..Len(piece) |->
        IF Exempt(f, piece[k]) THEN piece[k] ELSE mask_char]

\* faulty variant: acc is not carried from one fragment to the next
OffsetsRestart(nodes, acc) ==
    [i \in 1..Len(nodes) |-> <<0, Len(nodes[i][2])>>]

RECURSIVE OffsetsFrom(_, _)
OffsetsFrom(nodes, acc) ==
    IF nodes = <<>> THEN <<>>
    ELSE LET n == Len(Head(nodes)[2]) IN
         <<<<acc, acc + n>>>> \o OffsetsFrom(Tail(nodes), acc + n)

\* the "offsets" list built at the start of _apply_replacements_to_nodes
Offsets(nodes) == OffsetsFrom(nodes, 0)

\* faulty variant: the whole fragment is rewritten, not the local slice
MaskSliceWhole(f, txt, ls, le, mask_char) == MaskPiece(f, txt, mask_char)

\* faulty variant: the masked piece replaces the slice and the tail is dropped
MaskSliceNoTail(f, txt, ls, le, mask_char) ==
    Slice(txt, 0, ls) \o MaskPiece(f, Slice(txt, ls, le), mask_char)

\* txt[:ls] + masked + txt[le:]
MaskSlice(f, txt, ls, le, mask_char) ==
    Slice(txt, 0, ls) \o MaskPiece(f, Slice(txt, ls, le), mask_char)
        \o Slice(txt, le, Len(txt))

RECURSIVE SpanLoopFirstOnly(_, _, _, _, _, _)
\* faulty variant: the walk stops after the first fragment it rewrites
SpanLoopFirstOnly(f, nodes, offs, sp, i, mask_char) ==
    IF ~(i <= Len(nodes) /\ sp[2] > sp[1]) THEN nodes
    ELSE LET ns == offs[i][1]
             ne == offs[i][2]
             ls == Max2(ns, sp[1]) - ns
             le == Max2(0, Min2(ne, sp[2]) - ns)
         IN  IF ne <= sp[1]
             THEN SpanLoopFirstOnly(f, nodes, offs, sp, i + 1, mask_char)
             ELSE IF ns >= sp[2] THEN nodes
             ELSE IF ls < le
                  THEN [nodes EXCEPT ![i][2] =
                            MaskSlice(f, nodes[i][2], ls, le, mask_char)]
                  ELSE nodes

RECURSIVE SpanLoop(_, _, _, _, _, _)
\* the "while i < len(nodes) and e > s" loop for one span; i is 1-based
SpanLoop(f, nodes, offs, sp, i, mask_char) ==
    IF ~(i <= Len(nodes) /\ sp[2] > sp[1]) THEN nodes
    ELSE LET ns == offs[i][1]
             ne == offs[i][2]
             ls == Max2(ns, sp[1]) - ns
             le == Max2(0, Min2(ne, sp[2]) - ns)
         IN  IF ne <= sp[1]
             THEN SpanLoop(f, nodes, offs, sp, i + 1, mask_char)
             ELSE IF ns >= sp[2] THEN nodes
             ELSE SpanLoop(f,
                      IF ls < le
                      THEN [nodes EXCEPT ![i][2] =
                                MaskSlice(f, nodes[i][2], ls, le, mask_char)]
                      ELSE nodes,
                      offs, sp, i + 1, mask_char)

RECURSIVE MaskSpans(_, _, _, _, _)
\* "for s, e in spans"
MaskSpans(f, nodes, offs, spans, mask_char) ==
    IF spans = <<>> THEN nodes
    ELSE MaskSpans(f, SpanLoop(f, nodes, offs, Head(spans), 1, mask_char),
                   offs, Tail(spans), mask_char)

\* the nodes list after the replacement loops
MaskedNodes(f, nodes, spans, mask) ==
    MaskSpans(f, nodes, Offsets(nodes), spans, MaskChar(mask))

\* faulty variant: docx writes the masked text as it is, also when it is empty
WrittenTextPlain(f, new_text) == new_text

\* the text assigned to node.text for one entry of the nodes list
WrittenText(f, new_text) ==
    IF f = "docx" /\ new_text = <<>> THEN <<" ">> ELSE new_text

\* faulty variant: a no-break space does not make the text space-preserving
SetsPreserveNoNbsp(f, new_text) ==
    /\ f = "docx"
    /\ LET w == WrittenText(f, new_text) IN w[1] = " " \/ w[Len(w)] = " "

\* docx only: whether node.set(XML_SPACE, "preserve") runs for the entry
SetsPreserve(f, new_text) ==
    /\ f = "docx"
    /\ LET w == WrittenText(f, new_text) IN
       \/ w[1] = " "
       \/ w[Len(w)] = " "
       \/ \E k \in 1..Len(w) : w[k] = "U+00A0"

RECURSIVE WriteBackText(_, _, _)
\* "for node, new_text in nodes: node.text = new_text"
WriteBackText(f, nodes, store) ==
    IF nodes = <<>> THEN store
    ELSE WriteBackText(f, Tail(nodes),
             [store EXCEPT ![Head(nodes)[1]] = WrittenText(f, Head(nodes)[2])])

RECURSIVE WriteBackSpace(_, _, _)
WriteBackSpace(f, nodes, store) ==
    IF nodes = <<>> THEN store
    ELSE WriteBackSpace(f, Tail(nodes),
             IF SetsPreserve(f, Head(nodes)[2])
             THEN [store EXCEPT ![Head(nodes)[1]] = TRUE]
             ELSE store)

\* _apply_replacements_to_nodes: the nodes list it leaves and the node
\* texts and attributes it writes
_apply_replacements_to_nodes(f, nodes, spans, mask, text, space) ==
    LET out == MaskedNodes(f, nodes, spans, mask) IN
    [nodes |-> out,
     text  |-> WriteBackText(f, out, text),
     space |-> WriteBackSpace(f, out, space)]

(***************************************************************************)
(* Rule registry: the regular expressions of redac_rules.py                *)
(*                                                                         *)
(* Each <Rule>End(text, i) is the end offset of the match re finds when it *)
(* tries the pattern at offset i (greedy, backtracking), or NoMatch.       *)
(***************************************************************************)

\* [0-9]
AsciiDigits == {"0", "1", "2", "3", "4", "5", "6", "7", "8", "9"}

\* the full-width digits U+FF10 .. U+FF19, as CJK text writes them
FullwidthDigits == {"U+FF10", "U+FF11", "U+FF12", "U+FF13", "U+FF14",
                    "U+FF15", "U+FF16", "U+FF17", "U+FF18", "U+FF19"}

\* \d of a str pattern: every Unicode decimal digit, of which the model has
\* the ASCII and the full-width ones
Digits == AsciiDigits \cup FullwidthDigits
Upper == {"A", "B", "C", "D", "E", "F", "G", "H", "I", "J", "K", "L", "M",
          "N", "O", "P", "Q", "R", "S", "T", "U", "V", "W", "X", "Y", "Z"}
Lower == {"a", "b", "c", "d", "e", "f", "g", "h", "i", "j", "k", "l", "m",
          "n", "o", "p", "q", "r", "s", "t", "u", "v", "w", "x", "y", "z"}

NoMatch == 0 - 1

\* the character at offset k, "" past either end
At(text, k) == IF k >= 0 /\ k < Len(text) THEN text[k + 1] ELSE ""

\* \d{n} at offset k
DigitsAt(text, k, n) == \A j \in 0..(n - 1) : At(text, k + j) \in Digits

\* -? at offset k: the hyphen is taken when it is there
SkipHyphen(text, k) == IF At(text, k) = "-" THEN k + 1 ELSE k

RECURSIVE RunEnd(_, _, _)
\* [class]* at offset k: the offset after the longest run
RunEnd(text, k, class) ==
    IF At(text, k) \in class THEN RunEnd(text, k + 1, class) ELSE k

\* (?:0[1-9]|1[0-2]) at offset k
MonthAt(text, k) ==
    \/ At(text, k) = "0" /\ At(text, k + 1) \in AsciiDigits \ {"0"}
    \/ At(text, k) = "1" /\ At(text, k + 1) \in {"0", "1", "2"}

\* (?:0[1-9]|[12]\d|3[01]) at offset k
DayAt(text, k) ==
    \/ At(text, k) = "0" /\ At(text, k + 1) \in AsciiDigits \ {"0"}
    \/ At(text, k) \in {"1", "2"} /\ At(text, k + 1) \in Digits
    \/ At(text, k) = "3" /\ At(text, k + 1) \in {"0", "1"}

\* RRN_RE
RrnEnd(text, i) ==
    LET q == SkipHyphen(text, i + 6) IN
    IF /\ DigitsAt(text, i, 2)
       /\ MonthAt(text, i + 2)
       /\ DayAt(text, i + 4)
       /\ DigitsAt(text, q, 7)
    THEN q + 7 ELSE NoMatch

RECURSIVE CardIter(_, _, _)
\* (?:\d[ -]?){..16}: <<offset, iterations>> after as many iterations as fit
CardIter(text, k, n) ==
    IF n = 16 \/ At(text, k) \notin Digits THEN <<k, n>>
    ELSE CardIter(text,
                  IF At(text, k + 1) \in {" ", "-"} THEN k + 2 ELSE k + 1,
                  n + 1)

\* CARD_RE
CardEnd(text, i) ==
    LET r == CardIter(text, i, 0) IN
    IF r[2] >= 15 THEN r[1] ELSE NoMatch

EmailLocal == Upper \cup Lower \cup AsciiDigits \cup {".", "_", "%", "+", "-"}
EmailLabel == Upper \cup Lower \cup AsciiDigits \cup {"-"}
Letters == Upper \cup Lower

RECURSIVE EmailDomainEnd(_, _, _)
\* (?:[A-Za-z0-9-]+\.)+[A-Za-z]{2,} at offset q after k groups: one more
\* group first, the top-level domain when that fails
EmailDomainEnd(text, q, k) ==
    LET e == RunEnd(text, q, EmailLabel)
        deeper == IF e > q /\ At(text, e) = "."
                  THEN EmailDomainEnd(text, e + 1, k + 1) ELSE NoMatch
        tld == RunEnd(text, q, Letters)
    IN  IF deeper # NoMatch THEN deeper
        ELSE IF k >= 1 /\ tld - q >= 2 THEN tld
        ELSE NoMatch

\* EMAIL_RE
EmailEnd(text, i) ==
    LET j == RunEnd(text, i, EmailLocal) IN
    IF j > i /\ At(text, j) = "@" THEN EmailDomainEnd(text, j + 1, 0)
    ELSE NoMatch

\* \d{n}-?\d{4} at offset p
PhoneGroups(text, p, n) ==
    LET q == SkipHyphen(text, p + n) IN
    IF DigitsAt(text, p, n) /\ DigitsAt(text, q, 4) THEN q + 4 ELSE NoMatch

\* -?\d{3,4}-?\d{4} at offset p: four digits first, then three
PhoneTail(text, p) ==
    LET q == SkipHyphen(text, p) IN
    IF PhoneGroups(text, q, 4) # NoMatch THEN PhoneGroups(text, q, 4)
    ELSE PhoneGroups(text, q, 3)

\* MOBILE_RE
MobileEnd(text, i) ==
    IF /\ At(text, i) = "0"
       /\ At(text, i + 1) = "1"
       /\ At(text, i + 2) \in {"0", "1", "6", "7", "8", "9"}
    THEN PhoneTail(text, i + 3) ELSE NoMatch

\* 0(?:3[1-3]|4[1-4]|5[1-5]|6[1-4]) at offset i
AreaCode3At(text, i) ==
    /\ At(text, i) = "0"
    /\ \/ At(text, i + 1) = "3" /\ At(text, i + 2) \in {"1", "2", "3"}
       \/ At(text, i + 1) = "4" /\ At(text, i + 2) \in {"1", "2", "3", "4"}
       \/ At(text, i + 1) = "5" /\ At(text, i + 2) \in {"1", "2", "3", "4", "5"}
       \/ At(text, i + 1) = "6" /\ At(text, i + 2) \in {"1", "2", "3", "4"}

\* CITY_RE
CityEnd(text, i) ==
    IF At(text, i) = "0" /\ At(text, i + 1) = "2" THEN PhoneTail(text, i + 2)
    ELSE IF AreaCode3At(text, i) THEN PhoneTail(text, i + 3)
    ELSE NoMatch

\* PASSPORT_RE
PassportEnd(text, i) ==
    LET p == IF At(text, i + 1) \in Upper THEN i + 2 ELSE i + 1 IN
    IF At(text, i) \in Upper /\ DigitsAt(text, p, 7)
    THEN (IF At(text, p + 7) \in Digits THEN p + 8 ELSE p + 7)
    ELSE NoMatch

\* DRIVER_RE
DriverEnd(text, i) ==
    IF /\ DigitsAt(text, i, 2)
       /\ At(text, i + 2) = "-"
       /\ DigitsAt(text, i + 3, 2)
       /\ At(text, i + 5) = "-"
       /\ DigitsAt(text, i + 6, 6)
    THEN (IF At(text, i + 12) = "-" /\ DigitsAt(text, i + 13, 2)
          THEN i + 15 ELSE i + 12)
    ELSE NoMatch

\* the keys of RULES in insertion order
RuleNames == <<"rrn", "email", "phone_mobile", "phone_city", "card",
               "passport", "driver_license">>

\* rule["regex"] tried at offset i
RegexEnd(pname, text, i) ==
    CASE pname = "rrn" -> RrnEnd(text, i)
      [] pname = "email" -> EmailEnd(text, i)
      [] pname = "phone_mobile" -> MobileEnd(text, i)
      [] pname = "phone_city" -> CityEnd(text, i)
      [] pname = "card" -> CardEnd(text, i)
      [] pname = "passport" -> PassportEnd(text, i)
      [] pname = "driver_license" -> DriverEnd(text, i)

RECURSIVE finditer(_, _, _)
\* comp.finditer(text): the spans of the non-overlapping matches, scanning
\* from offset pos; the scan resumes where a match ended
finditer(pname, text, pos) ==
    IF pos >= Len(text) THEN <<>>
    ELSE LET e == RegexEnd(pname, text, pos) IN
         IF e = NoMatch THEN finditer(pname, text, pos + 1)
         ELSE <<<<pos, e>>>> \o finditer(pname, text, e)

(***************************************************************************)
(* Validators of validators.py                                             *)
(***************************************************************************)

\* int(ch) of a digit character
DigitVal(ch) ==
    CASE ch = "0" -> 0 [] ch = "1" -> 1 [] ch = "2" -> 2 [] ch = "3" -> 3
      [] ch = "4" -> 4 [] ch = "5" -> 5 [] ch = "6" -> 6 [] ch = "7" -> 7
      [] ch = "8" -> 8 [] ch = "9" -> 9
      [] ch = "U+FF10" -> 0 [] ch = "U+FF11" -> 1 [] ch = "U+FF12" -> 2
      [] ch = "U+FF13" -> 3 [] ch = "U+FF14" -> 4 [] ch = "U+FF15" -> 5
      [] ch = "U+FF16" -> 6 [] ch = "U+FF17" -> 7 [] ch = "U+FF18" -> 8
      [] ch = "U+FF19" -> 9

\* ord(ch) of a digit character
Ord(ch) == IF ch \in AsciiDigits THEN 48 + DigitVal(ch) ELSE 65296 + DigitVal(ch)

IsDigit(ch) == ch \in Digits

\* re.sub(r"\D", "", s or "")
_digits(s) == IF s = None THEN <<>> ELSE SelectSeq(s, IsDigit)

\* int(d[a:b]) of a digit string slice
IntOf(d, a, b) ==
    LET RECURSIVE Acc(_, _)
        Acc(k, v) == IF k >= b \/ k >= Len(d) THEN v
                     ELSE Acc(k + 1, 10 * v + DigitVal(d[k + 1]))
    IN  Acc(a, 0)

IsLeap(y) == (y % 4 = 0 /\ y % 100 # 0) \/ y % 400 = 0

DaysInMonth(y, m) ==
    IF m = 2 THEN (IF IsLeap(y) THEN 29 ELSE 28)
    ELSE IF m \in {4, 6, 9, 11} THEN 30 ELSE 31

\* datetime.strptime(y + birth[2:], "%Y%m%d") succeeds: for the eight digits
\* it is given, month and day are two digits each and name a calendar day
StrptimeOk(y, m, d) == m \in 1..12 /\ d \in 1..DaysInMonth(y, m)

\* the directives of strptime: %Y is \d\d\d\d, %m is 1[0-2]|0[1-9] and %d
\* is 3[01]|[12]\d|0[1-9] when both have two digits; mm and dd are the
\* two-character month and day
StrptimeShape(mm, dd) ==
    /\ mm[1] \in AsciiDigits /\ mm[2] \in AsciiDigits
    /\ dd[1] \in AsciiDigits
    /\ dd[2] \in AsciiDigits \/ dd[1] \in {"1", "2"}

\* dt > datetime.today() for the midnight dt of <<y, m, d>>
AfterToday(y, m, d, now) ==
    \/ y > now[1]
    \/ y = now[1] /\ m > now[2]
    \/ y = now[1] /\ m = now[2] /\ d > now[3]

is_valid_rrn_date_only(rrn, now) ==
    LET d == _digits(rrn) IN
    IF Len(d) # 13 THEN FALSE
    ELSE LET y == (IF d[7] \in {"3", "4"} THEN 2000 ELSE 1900) + IntOf(d, 0, 2)
             m == IntOf(d, 2, 4)
             dd == IntOf(d, 4, 6)
         IN  /\ StrptimeShape(Slice(d, 2, 4), Slice(d, 4, 6))
             /\ StrptimeOk(y, m, dd)
             /\ ~AfterToday(y, m, dd, now)

RrnWeights == <<2, 3, 4, 5, 6, 7, 8, 9, 2, 3, 4, 5>>

RECURSIVE WeightedSum(_, _)
\* sum(int(x)*w for x, w in zip(d[:-1], weights)), from index k on
WeightedSum(d, k) ==
    IF k > Len(RrnWeights) \/ k > Len(d) - 1 THEN 0
    ELSE DigitVal(d[k]) * RrnWeights[k] + WeightedSum(d, k + 1)

is_valid_rrn_checksum(rrn) ==
    LET d == _digits(rrn) IN
    IF Len(d) # 13 THEN FALSE
    ELSE (11 - (WeightedSum(d, 1) % 11)) % 10 = DigitVal(d[13])

\* faulty variant: the checksum is not looked at
is_valid_rrn_date_alone(rrn, use_checksum, now) ==
    is_valid_rrn_date_only(rrn, now)

is_valid_rrn(rrn, use_checksum, now) ==
    IF ~is_valid_rrn_date_only(rrn, now) THEN FALSE
    ELSE IF use_checksum /\ ~is_valid_rrn_checksum(rrn) THEN FALSE
    ELSE TRUE

RECURSIVE LuhnSum(_, _, _)
\* the loop of _luhn_ok over reversed(d): k counts from the right, alt flips
LuhnSum(d, k, alt) ==
    IF k < 1 THEN 0
    ELSE LET n == Ord(d[k]) - 48
             n2 == IF alt THEN (IF 2 * n > 9 THEN 2 * n - 9 ELSE 2 * n) ELSE n
         IN  n2 + LuhnSum(d, k - 1, ~alt)

_luhn_ok(d) == LuhnSum(d, Len(d), FALSE) % 10 = 0

\* a dict is the sequence of its <<key, value>> items; the value of key, or
\* default when the dict has no such key
DictGet(dict, key, default) ==
    LET hit(item) == item[1] = key
        items == SelectSeq(dict, hit)
    IN  IF items = <<>> THEN default ELSE items[Len(items)][2]

\* opts = {"luhn": True, "iin": True}; if options: opts.update(options)
CardOpts(options) ==
    IF options = None \/ options = <<>>
    THEN [luhn |-> TRUE, iin |-> TRUE]
    ELSE [luhn |-> DictGet(options, "luhn", TRUE),
          iin |-> DictGet(options, "iin", TRUE)]

\* the issuer-range branch of is_valid_card
IinOk(d) ==
    IF Len(d) = 16
    THEN \/ d[1] = "4"
         \/ d[1] = "5" /\ 51 <= IntOf(d, 0, 2) /\ IntOf(d, 0, 2) <= 55
         \/ d[1] = "2" /\ 2221 <= IntOf(d, 0, 4) /\ IntOf(d, 0, 4) <= 2720
         \/ d[1] = "6"
         \/ d[1] = "9"
         \/ IntOf(d, 0, 2) = 35
    ELSE Slice(d, 0, 2) = <<"3", "4">> \/ Slice(d, 0, 2) = <<"3", "7">>

is_valid_card(number, options) ==
    LET opts == CardOpts(options)
        d == _digits(number)
    IN  IF Len(d) \notin {15, 16} THEN FALSE
        ELSE IF opts.iin /\ ~IinOk(d) THEN FALSE
        ELSE IF opts.luhn /\ ~_luhn_ok(d) THEN FALSE
        ELSE TRUE

is_valid_phone_mobile(number) ==
    LET d == _digits(number) IN
    Slice(d, 0, 3) = <<"0", "1", "0">> /\ Len(d) = 11

\* {f"0{x}" for x in range(31, 65)}: three-character strings
AreaCodeSet ==
    ({<<"0", a, b>> : a \in {"3", "4", "5"}, b \in AsciiDigits}
        \ {<<"0", "3", "0">>})
    \cup {<<"0", "6", b>> : b \in {"0", "1", "2", "3", "4"}}

\* d[:2] is compared with the three-character area codes
is_valid_phone_city(number) ==
    LET d == _digits(number) IN
    IF Slice(d, 0, 2) = <<"0", "2">> /\ 9 <= Len(d) /\ Len(d) <= 10 THEN TRUE
    ELSE IF Slice(d, 0, 2) \in AreaCodeSet /\ 10 <= Len(d) /\ Len(d) <= 11
         THEN TRUE
    ELSE FALSE

\* the set of offsets at which the e-mail pattern can end when it starts at
\* the beginning of addr
EmailEnds(addr) ==
    LET j == RunEnd(addr, 0, EmailLocal)
        RECURSIVE Groups(_, _)
        Groups(q, k) ==
            LET e == RunEnd(addr, q, EmailLabel)
                here == IF k >= 1
                        THEN {q + n : n \in 2..(RunEnd(addr, q, Letters) - q)}
                        ELSE {}
            IN  IF e > q /\ At(addr, e) = "."
                THEN here \cup Groups(e + 1, k + 1) ELSE here
    IN  IF j > 0 /\ At(addr, j) = "@" THEN Groups(j + 1, 0) ELSE {}

\* pat.match(addr or ""), the pattern anchored with ^ and $
is_valid_email(addr) ==
    LET a == IF addr = None THEN <<>> ELSE addr IN
    \/ Len(a) \in EmailEnds(a)
    \/ Len(a) >= 1 /\ a[Len(a)] = "\n" /\ (Len(a) - 1) \in EmailEnds(a)

\* rule["validator"](val) for the rule pname, called with the value alone
RuleValidator(pname, val, now) ==
    CASE pname = "rrn" -> is_valid_rrn(val, TRUE, now)
      [] pname = "email" -> is_valid_email(val)
      [] pname = "phone_mobile" -> is_valid_phone_mobile(val)
      [] pname = "phone_city" -> is_valid_phone_city(val)
      [] pname = "card" -> is_valid_card(val, None)
      [] pname = "passport" -> TRUE
      [] pname = "driver_license" -> TRUE

(***************************************************************************)
(* Match finder                                                            *)
(***************************************************************************)

\* what the validator call does for one candidate: it returns true or
\* false, or raises when the candidate is in the set raising (the shipped
\* validators raise for no string; raising is injected)
CallValidator(pname, sp, val, now, raising) ==
    IF <<pname, sp>> \in raising THEN "raise"
    ELSE IF RuleValidator(pname, val, now) THEN "true" ELSE "false"

\* faulty variant: no try/except around the validator call
GuardedUncaught(outcome) == outcome

\* try: ok = bool(validator(val)) / except Exception: ok = False
Guarded(outcome) == IF outcome = "raise" THEN "false" ELSE outcome

RECURSIVE RuleMatches(_, _, _, _, _)
\* "for m in comp.finditer(text)" for one rule; an exception that escapes
\* ends the loop and is the last entry, <<"raise", span, val>>
RuleMatches(pname, text, cands, now, raising) ==
    IF cands = <<>> THEN <<>>
    ELSE LET sp == Head(cands)
             val == Slice(text, sp[1], sp[2])
             ok == Guarded(CallValidator(pname, sp, val, now, raising))
         IN  IF ok = "raise" THEN <<<<"raise", sp, val>>>>
             ELSE (IF ok = "true" THEN <<<<pname, sp, val>>>> ELSE <<>>)
                  \o RuleMatches(pname, text, Tail(cands), now, raising)

Escaped(matches) ==
    matches # <<>> /\ matches[Len(matches)][1] = "raise"

RECURSIVE FindFrom(_, _, _, _)
\* "for pname, rule in RULES.items()" from the k-th rule on
FindFrom(k, text, now, raising) ==
    IF k > Len(RuleNames) THEN <<>>
    ELSE LET here == RuleMatches(RuleNames[k], text,
                         finditer(RuleNames[k], text, 0), now, raising)
         IN  IF Escaped(here) THEN here
             ELSE here \o FindFrom(k + 1, text, now, raising)

\* _find_matches(text) with validators that may raise for the candidates in
\* raising
FindMatchesRaising(text, now, raising) == FindFrom(1, text, now, raising)

\* _find_matches(text) with the shipped RULES
_find_matches(text, now) == FindMatchesRaising(text, now, {})

\* [span for _pn, span, _v in found]
SpansOf(found) == [i \in 1..Len(found) |-> found[i][2]]

(***************************************************************************)
(* The run state while no document part is being processed                 *)
(***************************************************************************)

Today0 == <<2025, 6, 15>>

NoDoc ==
    /\ tag = <<>>
    /\ parent = <<>>
    /\ nodeText = <<>>
    /\ nodeSpace = <<>>
    /\ units = <<>>
    /\ ui = 0
    /\ total = 0
    /\ changed = FALSE
    /\ writes = 0
    /\ last = Idle
    /\ pc = "idle"

(***************************************************************************)
(* SpecMerge: _merge_overlaps called on every list of spans within bounds  *)
(***************************************************************************)

MaxMergePos == 4
MaxMergeSpans == 3

MergeSpanSet ==
    {<<s, e>> : s \in 0..MaxMergePos, e \in 0..MaxMergePos} \cap
    {sp \in (0..MaxMergePos) \X (0..MaxMergePos) : sp[1] <= sp[2]}

MergeInputs == UNION {[1..n -> MergeSpanSet] : n \in 0..MaxMergeSpans}

MergeInit ==
    /\ today = Today0
    /\ partRun = Idle
    /\ jobs = <<>>
    /\ tmpDir = NoTmp
    /\ blocks = <<>>
    /\ cardCall = Idle
    /\ mergeCall \in {[pc |-> "call", spans |-> sp] : sp \in MergeInputs}
    /\ maskCall = Idle
    /\ findCall = Idle
    /\ cityCall = Idle
    /\ fmt = "docx"
    /\ NoDoc

MergeReturn ==
    /\ mergeCall.pc = "call"
    /\ mergeCall' = [pc |-> "done", spans |-> mergeCall.spans,
                     out |-> _merge_overlaps(mergeCall.spans)]
    /\ UNCHANGED <<today, partRun, jobs, tmpDir, blocks, cardCall, maskCall,
                   findCall, cityCall, docVars>>

MergeNext == MergeReturn

SpecMerge == MergeInit /\ [][MergeNext]_vars

(***************************************************************************)
(* SpecMask: _apply_replacements_to_nodes called on every fragment list    *)
(* within bounds, with every merged span list over its concatenation       *)
(***************************************************************************)

MaxFrags == 3

\* fragment texts: a maskable character next to a dash, a hyphen, a space,
\* a no-break space, and the empty text
MaskTexts == {<<>>, <<"-">>, <<" ">>, <<"U+00A0">>, <<"7", "U+2013">>}

\* the mask arguments: the default, a longer string, the empty string, None
MaskArgs == {<<"*">>, <<"#", "x">>, <<>>, None}

FragLists == UNION {[1..n -> MaskTexts] : n \in 1..MaxFrags}

\* the nodes list of a flat unit: fragment i belongs to node i
NodesOfFrags(frags) == [i \in 1..Len(frags) |-> <<i, frags[i]>>]

RECURSIVE RunsOf(_, _, _)
\* the merged span list covering exactly the positions of S below n
RunsOf(S, k, n) ==
    IF k >= n THEN <<>>
    ELSE IF k \notin S THEN RunsOf(S, k + 1, n)
    ELSE LET e == CHOOSE j \in (k + 1)..n :
                      /\ j = n \/ j \notin S
                      /\ \A m \in k..(j - 1) : m \in S
         IN  <<<<k, e>>>> \o RunsOf(S, e, n)

MergedSpanLists(n) == {RunsOf(S, 0, n) : S \in SUBSET (0..(n - 1))}

\* an element parsed from XML has text None or a non-empty string
ParsedText(txt) == IF txt = <<>> THEN None ELSE txt

MaskInit ==
    /\ today = Today0
    /\ partRun = Idle
    /\ jobs = <<>>
    /\ tmpDir = NoTmp
    /\ blocks = <<>>
    /\ cardCall = Idle
    /\ mergeCall = Idle
    /\ findCall = Idle
    /\ cityCall = Idle
    /\ fmt \in Formats
    /\ \E frags \in FragLists :
         \* hwpx collects no element whose text is None
         /\ fmt = "hwpx" => \A i \in 1..Len(frags) : frags[i] # <<>>
         /\ \E spans \in MergedSpanLists(Len(Concat(frags))) :
              maskCall = [pc |-> "call", nodes |-> NodesOfFrags(frags),
                          spans |-> spans]
         /\ tag = [i \in 1..Len(frags) |-> "t"]
         /\ parent = [i \in 1..Len(frags) |-> 0]
         /\ nodeText = [i \in 1..Len(frags) |-> ParsedText(frags[i])]
         /\ nodeSpace = [i \in 1..Len(frags) |-> FALSE]
    /\ units = <<>>
    /\ ui = 0
    /\ total = 0
    /\ changed = FALSE
    /\ writes = 0
    /\ last = Idle
    /\ pc = "idle"

MaskReturn ==
    /\ maskCall.pc = "call"
    /\ \E mask \in MaskArgs :
         LET r == _apply_replacements_to_nodes(fmt, maskCall.nodes,
                      maskCall.spans, mask, nodeText, nodeSpace)
         IN  /\ maskCall' = [pc |-> "done", nodes |-> maskCall.nodes,
                             spans |-> maskCall.spans, mask |-> mask,
                             out |-> r.nodes]
             /\ nodeText' = r.text
             /\ nodeSpace' = r.space
    /\ UNCHANGED <<today, partRun, jobs, tmpDir, blocks, cardCall, mergeCall,
                   findCall, cityCall, fmt, tag, parent, units, ui, total,
                   changed, writes, last, pc>>

MaskNext == MaskReturn

SpecMask == MaskInit /\ [][MaskNext]_vars

(***************************************************************************)
(* Properties of the masker (SpecMask)                                     *)
(***************************************************************************)

MaskDone == maskCall.pc = "done"

\* offset of fragment i in the concatenated string, from the texts alone
FragStart(nodes, i) == Len(Concat([j \in 1..(i - 1) |-> nodes[j][2]]))

InSomeSpan(spans, p) ==
    \E j \in 1..Len(spans) : spans[j][1] <= p /\ p < spans[j][2]

\* C1 as stated: after _apply_replacements_to_nodes the text written back to
\* every fragment's node has as many characters as the fragment had before
\* masking, empty fragments included.
C1_WrittenLengthKept ==
    MaskDone =>
        \A i \in 1..Len(maskCall.nodes) :
            Len(nodeText[maskCall.nodes[i][1]]) = Len(maskCall.nodes[i][2])

\* C1 amended: every fragment text of the nodes list keeps its length, so the
\* sum of the fragment lengths equals the length of the original concatenated
\* string; the text written to the node has that length too, except that docx
\* writes a single space to the node of an empty fragment.
C1_LengthInvariance ==
    MaskDone =>
        /\ \A i \in 1..Len(maskCall.nodes) :
             LET before == maskCall.nodes[i][2]
                 written == nodeText[maskCall.nodes[i][1]]
             IN  /\ Len(maskCall.out[i][2]) = Len(before)
                 /\ IF fmt = "docx" /\ before = <<>>
                    THEN written = <<" ">>
                    ELSE Len(written) = Len(before)
        /\ Len(Concat([i \in 1..Len(maskCall.out) |-> maskCall.out[i][2]]))
             = Len(Concat([i \in 1..Len(maskCall.nodes) |->
                              maskCall.nodes[i][2]]))

\* C1 witness: a docx unit with an empty fragment and a fragment that a span
\* rewrote
C1_Witness ==
    /\ MaskDone
    /\ fmt = "docx"
    /\ \E i \in 1..Len(maskCall.nodes) : maskCall.nodes[i][2] = <<>>
    /\ \E i \in 1..Len(maskCall.nodes) :
         maskCall.out[i][2] # maskCall.nodes[i][2]

\* C2: every character whose position in the concatenated string lies in a
\* span is the mask character afterwards unless it is exempt, whichever
\* fragment holds it and however many fragments the span straddles; the two
\* examples of the specification come out as stated.
C2_CrossFragmentMasking ==
    /\ MaskDone =>
         \A i \in 1..Len(maskCall.nodes) :
           \A k \in 1..Len(maskCall.nodes[i][2]) :
             LET ch == maskCall.nodes[i][2][k]
                 p == FragStart(maskCall.nodes, i) + k - 1
                 want == IF Exempt(fmt, ch) THEN ch
                         ELSE MaskChar(maskCall.mask)
             IN  InSomeSpan(maskCall.spans, p) =>
                     /\ maskCall.out[i][2][k] = want
                     /\ nodeText[maskCall.nodes[i][1]][k] = want
    /\ \A f \in Formats :
         /\ MaskedNodes(f, <<<<1, <<"0", "1", "0", "1", "2">>>>,
                              <<2, <<"3", "4", "5", "6", "7", "8">>>>>>,
                        <<<<0, 11>>>>, <<"*">>)
              = <<<<1, <<"*", "*", "*", "*", "*">>>>,
                  <<2, <<"*", "*", "*", "*", "*", "*">>>>>>
         /\ MaskedNodes(f, <<<<1, <<"A", "B", "C">>>>,
                              <<2, <<"1", "2", "3", "-", "4", "5", "6", "7">>>>>>,
                        <<<<3, 11>>>>, <<"*">>)
              = <<<<1, <<"A", "B", "C">>>>,
                  <<2, <<"*", "*", "*", "-", "*", "*", "*", "*">>>>>>

\* C2 witness: one span covers the end of a fragment, an empty fragment and
\* the start of a third fragment
C2_Witness ==
    /\ MaskDone
    /\ Len(maskCall.nodes) = 3
    /\ maskCall.nodes[1][2] # <<>>
    /\ maskCall.nodes[2][2] = <<>>
    /\ maskCall.nodes[3][2] # <<>>
    /\ \E j \in 1..Len(maskCall.spans) :
         /\ maskCall.spans[j][1] < Len(maskCall.nodes[1][2])
         /\ maskCall.spans[j][2] > Len(maskCall.nodes[1][2])
    /\ maskCall.out[1][2] # maskCall.nodes[1][2]
    /\ maskCall.out[3][2] # maskCall.nodes[3][2]

\* C3: a character whose position lies in no span is the same before and
\* after, in the nodes list and in the node, for any number of spans.
C3_OutsideSpansUntouched ==
    MaskDone =>
        \A i \in 1..Len(maskCall.nodes) :
          \A k \in 1..Len(maskCall.nodes[i][2]) :
            LET p == FragStart(maskCall.nodes, i) + k - 1 IN
            ~InSomeSpan(maskCall.spans, p) =>
                /\ maskCall.out[i][2][k] = maskCall.nodes[i][2][k]
                /\ nodeText[maskCall.nodes[i][1]][k] = maskCall.nodes[i][2][k]

\* C3 witness: two spans were applied and one fragment holds a rewritten
\* character next to a character outside every span
C3_Witness ==
    /\ MaskDone
    /\ Len(maskCall.spans) >= 2
    /\ \E i \in 1..Len(maskCall.nodes) :
         /\ maskCall.out[i][2] # maskCall.nodes[i][2]
         /\ \E k \in 1..Len(maskCall.nodes[i][2]) :
              ~InSomeSpan(maskCall.spans,
                          FragStart(maskCall.nodes, i) + k - 1)

(***************************************************************************)
(* Properties of the span merger (SpecMerge)                               *)
(***************************************************************************)

MergeDone == mergeCall.pc = "done"

\* the integer positions a span list covers
Covered(spans) ==
    {p \in 0..(MaxMergePos + 6) :
        \E i \in 1..Len(spans) : spans[i][1] <= p /\ p < spans[i][2]}

\* C4: the output of _merge_overlaps is sorted by start, pairwise disjoint,
\* and consecutive output spans (a, b), (c, d) satisfy b < c; the touching
\* spans (1,2), (2,4) coalesce into (1,4).
C4_MergedSortedApart ==
    /\ MergeDone =>
         \A i \in 1..Len(mergeCall.out) : \A j \in 1..Len(mergeCall.out) :
            i < j => /\ mergeCall.out[i][1] <= mergeCall.out[j][1]
                     /\ mergeCall.out[i][2] < mergeCall.out[j][1]
    /\ _merge_overlaps(<<<<1, 2>>, <<2, 4>>>>) = <<<<1, 4>>>>

\* C4 witness: the input holds two touching spans and a span apart from them
C4_Witness ==
    /\ MergeDone
    /\ Len(mergeCall.out) = 2
    /\ \E i \in 1..Len(mergeCall.spans) : \E j \in 1..Len(mergeCall.spans) :
         /\ mergeCall.spans[i][1] < mergeCall.spans[i][2]
         /\ mergeCall.spans[j][1] < mergeCall.spans[j][2]
         /\ mergeCall.spans[i][2] = mergeCall.spans[j][1]

\* the input list reordered by the permutation q of its indices
Reordered(spans, q) == [i \in 1..Len(spans) |-> spans[q[i]]]

\* C5: for non-empty input spans the output covers exactly the positions the
\* input covers, has one span per maximal run of covered positions (no
\* shorter list covers them), and is the same for every order of the input;
\* merge([]) = [] and merge([(0,3),(2,5),(7,9)]) = [(0,5),(7,9)].
C5_MergeExactUnion ==
    /\ (MergeDone /\ \A i \in 1..Len(mergeCall.spans) :
                        mergeCall.spans[i][1] < mergeCall.spans[i][2]) =>
         LET cov == Covered(mergeCall.spans) IN
         /\ Covered(mergeCall.out) = cov
         /\ Len(mergeCall.out) = Cardinality({p \in cov : p - 1 \notin cov})
         /\ \A q \in Permutations(1..Len(mergeCall.spans)) :
              _merge_overlaps(Reordered(mergeCall.spans, q)) = mergeCall.out
    /\ _merge_overlaps(<<>>) = <<>>
    /\ _merge_overlaps(<<<<0, 3>>, <<2, 5>>, <<7, 9>>>>)
         = <<<<0, 5>>, <<7, 9>>>>

\* C5 witness: three non-empty spans given out of order, two of which
\* overlap, merged into two
C5_Witness ==
    /\ MergeDone
    /\ Len(mergeCall.spans) = 3
    /\ Len(mergeCall.out) = 2
    /\ \A i \in 1..3 : mergeCall.spans[i][1] < mergeCall.spans[i][2]
    /\ mergeCall.spans[1][1] > mergeCall.spans[2][1]
    /\ \E i \in 1..3 : \E j \in 1..3 :
         /\ mergeCall.spans[i][1] < mergeCall.spans[j][1]
         /\ mergeCall.spans[j][1] < mergeCall.spans[i][2]

(***************************************************************************)
(* SpecFind: one pass of the redaction loop body over a flat logical unit  *)
(* (join -> _find_matches -> _merge_overlaps ->                            *)
(* _apply_replacements_to_nodes with the default mask), and _find_matches  *)
(* run again on the concatenation of the masked fragment texts             *)
(***************************************************************************)

MaxFindFrags == 2

\* fragment texts: text no rule matches, a mobile number whole and split in
\* two runs, and one number or address for each of the other rules
FindTexts == {
    <<"H", "e", "l", "l", "o", " ", "w", "o", "r", "l", "d">>,
    <<"0", "1", "0", "1", "2">>,
    <<"3", "4", "5", "6", "7", "8">>,
    <<"0", "1", "0", "1", "2", "3", "4", "5", "6", "7", "8">>,
    <<"0", "2", "-", "1", "2", "3", "-", "4", "5", "6", "7">>,
    <<"4", "1", "1", "1", "1", "1", "1", "1", "1", "1", "1", "1", "1", "1",
      "1", "1">>,
    <<"9", "0", "0", "1", "0", "1", "-", "1", "2", "3", "4", "5", "6", "8">>,
    <<"a", "@", "b", ".", "c", "o">>,
    <<"A", "1", "2", "3", "4", "5", "6", "7">>,
    <<"1", "1", "-", "2", "2", "-", "3", "3", "3", "3", "3", "3", "-", "4",
      "4">>}

FindFragLists == UNION {[1..n -> FindTexts] : n \in 1..MaxFindFrags}

TextsOf(nodes) == [i \in 1..Len(nodes) |-> nodes[i][2]]

FindInit ==
    /\ today = Today0
    /\ partRun = Idle
    /\ jobs = <<>>
    /\ tmpDir = NoTmp
    /\ blocks = <<>>
    /\ cardCall = Idle
    /\ mergeCall = Idle
    /\ maskCall = Idle
    /\ cityCall = Idle
    /\ fmt \in Formats
    /\ \E frags \in FindFragLists :
         /\ fmt = "hwpx" => \A i \in 1..Len(frags) : frags[i] # <<>>
         /\ findCall = [pc |-> "call", frags |-> frags]
    /\ NoDoc

FindPass ==
    /\ findCall.pc = "call"
    /\ LET nodes == NodesOfFrags(findCall.frags)
           joined == Concat(findCall.frags)
           found == _find_matches(joined, today)
           spans == _merge_overlaps(SpansOf(found))
           out == IF found = <<>> THEN findCall.frags
                  ELSE TextsOf(MaskedNodes(fmt, nodes, spans, <<"*">>))
       IN  findCall' = [pc |-> "done", frags |-> findCall.frags,
                        found |-> found, spans |-> spans, out |-> out,
                        again |-> _find_matches(Concat(out), today)]
    /\ UNCHANGED <<today, partRun, jobs, tmpDir, blocks, cardCall, mergeCall,
                   maskCall, cityCall, docVars>>

FindNext == FindPass

SpecFind == FindInit /\ [][FindNext]_vars

\* C6: after one find -> merge -> mask pass with the default mask, running
\* _find_matches on the concatenation of the masked fragment texts returns
\* no match at all.
C6_IdempotenceOfNonMatch ==
    findCall.pc = "done" => findCall.again = <<>>

(***************************************************************************)
(* SpecFindRaising: _find_matches on the same texts, with a validator that *)
(* raises for a chosen set of the regex candidates                         *)
(***************************************************************************)

\* every regex candidate of every rule in text, as <<pname, span>>
Candidates(text) ==
    UNION {LET c == finditer(RuleNames[k], text, 0) IN
           {<<RuleNames[k], c[i]>> : i \in 1..Len(c)} :
              k \in 1..Len(RuleNames)}

MaxRaisingFrags == 2

\* fragment texts: a mobile number its validator confirms, one it rejects,
\* a passport number, an address and a separator
RaisingTexts == {
    <<" ">>,
    <<"0", "1", "0", "1", "2", "3", "4", "5", "6", "7", "8">>,
    <<"0", "1", "1", "-", "1", "2", "3", "4", "-", "5", "6", "7", "8">>,
    <<"a", "@", "b", ".", "c", "o">>,
    <<"A", "1", "2", "3", "4", "5", "6", "7">>}

FindRaisingInit ==
    /\ today = Today0
    /\ partRun = Idle
    /\ jobs = <<>>
    /\ tmpDir = NoTmp
    /\ blocks = <<>>
    /\ cardCall = Idle
    /\ mergeCall = Idle
    /\ maskCall = Idle
    /\ cityCall = Idle
    /\ fmt = "docx"
    /\ findCall \in {[pc |-> "call", frags |-> frags] :
            frags \in UNION {[1..n -> RaisingTexts] :
                                n \in 1..MaxRaisingFrags}}
    /\ NoDoc

FindRaisingReturn ==
    /\ findCall.pc = "call"
    /\ LET joined == Concat(findCall.frags) IN
       \E raising \in SUBSET Candidates(joined) :
          LET r == FindMatchesRaising(joined, today, raising) IN
          findCall' = [pc |-> IF Escaped(r) THEN "raised" ELSE "done",
                       frags |-> findCall.frags, raising |-> raising,
                       found |-> r]
    /\ UNCHANGED <<today, partRun, jobs, tmpDir, blocks, cardCall, mergeCall,
                   maskCall, cityCall, docVars>>

FindRaisingNext == FindRaisingReturn

SpecFindRaising == FindRaisingInit /\ [][FindRaisingNext]_vars

\* the k-th rule's candidates that its validator confirms without raising,
\* as matches, in scan order
Confirmed(k, text, now, raising) ==
    LET c == finditer(RuleNames[k], text, 0)
        all == [i \in 1..Len(c) |->
                   <<RuleNames[k], c[i], Slice(text, c[i][1], c[i][2])>>]
        Keep(m) == /\ <<m[1], m[2]>> \notin raising
                   /\ RuleValidator(m[1], m[3], now)
    IN  SelectSeq(all, Keep)

\* C8: a candidate whose validator raises or returns a falsy value is
\* dropped, and only that candidate: _find_matches never lets the exception
\* escape, and its result is every other candidate of every rule that its
\* validator confirms, in order.
C8_ValidatorFailureIsLocal ==
    /\ findCall.pc # "raised"
    /\ findCall.pc = "done" =>
         LET text == Concat(findCall.frags) IN
         findCall.found =
             Concat([k \in 1..Len(RuleNames) |->
                        Confirmed(k, text, today, findCall.raising)])

\* C8 witness: the validator raised for one candidate, returned false for
\* another, and a later candidate of the raising rule was emitted
C8_Witness ==
    /\ findCall.pc = "done"
    /\ LET text == Concat(findCall.frags) IN
       /\ \E c \in findCall.raising :
            \E i \in 1..Len(findCall.found) :
               /\ findCall.found[i][1] = c[1]
               /\ findCall.found[i][2][1] >= c[2][2]
       /\ \E c \in Candidates(text) \ findCall.raising :
            ~RuleValidator(c[1], Slice(text, c[2][1], c[2][2]), today)

(***************************************************************************)
(* SpecCity: is_valid_phone_city called on landline-shaped values          *)
(***************************************************************************)

MaxCityDigits == 12

\* the leading digits: 02, three-digit area codes inside and outside
\* 031..064, and a mobile prefix
CityPrefixes == {<<"0", "2">>, <<"0", "3", "1">>, <<"0", "3", "3">>,
                 <<"0", "4", "4">>, <<"0", "5", "5">>, <<"0", "6", "4">>,
                 <<"0", "6", "5">>, <<"0", "3", "0">>, <<"0", "1", "0">>}

DigitChars == <<"1", "2", "3", "4", "5", "6", "7", "8", "9", "0">>

\* k subscriber digits
Filler(k) == [i \in 1..k |-> DigitChars[((i - 1) % 10) + 1]]

CityValues ==
    {pre \o sep \o Filler(n - Len(pre)) :
        pre \in CityPrefixes, sep \in {<<>>, <<"-">>}, n \in 8..MaxCityDigits}

CityInit ==
    /\ today = Today0
    /\ partRun = Idle
    /\ jobs = <<>>
    /\ tmpDir = NoTmp
    /\ blocks = <<>>
    /\ cardCall = Idle
    /\ mergeCall = Idle
    /\ maskCall = Idle
    /\ findCall = Idle
    /\ cityCall \in {[pc |-> "call", value |-> v] : v \in CityValues}
    /\ fmt = "docx"
    /\ NoDoc

CityReturn ==
    /\ cityCall.pc = "call"
    /\ cityCall' = [pc |-> "done", value |-> cityCall.value,
                    out |-> is_valid_phone_city(cityCall.value)]
    /\ UNCHANGED <<today, partRun, jobs, tmpDir, blocks, cardCall, mergeCall,
                   maskCall, findCall, docVars>>

CityNext == CityReturn

SpecCity == CityInit /\ [][CityNext]_vars

\* the digits-only form starts with a three-digit area code 031 .. 064
StartsWithAreaCode3(d) ==
    /\ Len(d) >= 3
    /\ d[1] = "0"
    /\ 31 <= 10 * DigitVal(d[2]) + DigitVal(d[3])
    /\ 10 * DigitVal(d[2]) + DigitVal(d[3]) <= 64

\* C10: is_valid_phone_city returns true for every value whose digits-only
\* form starts with 02 and has 9 or 10 digits, and for every value whose
\* digits-only form starts with a three-digit area code 031 .. 064 and has 10
\* or 11 digits; it returns false for the other digit counts.
C10_CityValidator ==
    cityCall.pc = "done" =>
        LET d == SelectSeq(cityCall.value, IsDigit)
            is02 == Len(d) >= 2 /\ d[1] = "0" /\ d[2] = "2"
        IN  /\ (is02 /\ Len(d) \in {9, 10}) => cityCall.out
            /\ (StartsWithAreaCode3(d) /\ Len(d) \in {10, 11}) => cityCall.out
            /\ (is02 /\ Len(d) \notin {9, 10}) => ~cityCall.out
            /\ (StartsWithAreaCode3(d) /\ Len(d) \notin {10, 11})
                   => ~cityCall.out

(***************************************************************************)
(* Spec: one document part (document.xml, a slide, a section,              *)
(* sharedStrings.xml) run through the paragraph loop of redact_<format>    *)
(***************************************************************************)

\* The part's element tree: elements 1..Len(tag) in document order, parent 0
\* is the root element.  "p" is the unit element (w:p, a:p, hp:p, s:si), "r"
\* a run, "t" a text element; elements between them (tables, text boxes,
\* fields) are elided, so a nested paragraph sits directly under a run or a
\* paragraph and a text element outside any run sits directly under its
\* paragraph.
MaxNodes == 4

Tags == {"p", "r", "t"}

\* the mask argument the entry points pass
DefaultMask == <<"*">>

DocTexts == {None,
             <<"H", "e", "l", "l", "o", " ", "w", "o", "r", "l", "d">>,
             <<"0", "1", "0", "-", "1", "2", "3", "4">>,
             <<"-", "5", "6", "7", "8", " ", "a", "@", "b", ".", "c", "o">>}

RECURSIVE AncestorsOrSelf(_, _)
AncestorsOrSelf(par, i) ==
    IF i = 0 THEN {0} ELSE {i} \union AncestorsOrSelf(par, par[i])

IsDescendant(par, i, a) == i # a /\ a \in AncestorsOrSelf(par, i)

\* where the document formats allow an element: paragraphs nest (through
\* tables and text boxes) in docx and hwpx only
ChildOk(f, tg, ptag) ==
    CASE tg = "p" -> \/ ptag = "root"
                     \/ f \in {"docx", "hwpx"} /\ ptag \in {"r", "p"}
      [] tg = "r" -> ptag = "p"
      [] tg = "t" -> ptag \in {"r", "p"}

TagOf(tg, i) == IF i = 0 THEN "root" ELSE tg[i]

RECURSIVE Trees(_, _)
Trees(f, n) ==
    IF n = 0 THEN {[tag |-> <<>>, parent |-> <<>>]}
    ELSE UNION {
           {[tag |-> Append(T.tag, x[1]), parent |-> Append(T.parent, x[2])] :
              x \in {y \in Tags \X (0..(n - 1)) :
                       /\ y[2] \in AncestorsOrSelf(T.parent, n - 1)
                       /\ ChildOk(f, y[1], TagOf(T.tag, y[2]))}} :
           T \in Trees(f, n - 1)}

\* the text of every element: text elements draw from DocTexts
RECURSIVE TextsFor(_, _)
TextsFor(tg, n) ==
    IF n = 0 THEN {<<>>}
    ELSE {Append(tx, x) :
            tx \in TextsFor(tg, n - 1),
            x \in IF tg[n] = "t" THEN DocTexts ELSE {None}}

Ids(n) == [i \in 1..n |-> i]

TextOrEmpty(txt) == IF txt = None THEN <<>> ELSE txt

\* root.xpath(".//w:p"), root.findall(".//a:p"), root.findall("./s:si"), and
\* the elements named p met by root.iter(): the unit elements in document
\* order
ParagraphElements(f, tg, par) ==
    LET isP(i) == tg[i] = "p" /\ (f = "xlsx" => par[i] = 0)
    IN  SelectSeq(Ids(Len(tg)), isP)

EntriesOf(ids, text) == [k \in 1..Len(ids) |-> <<ids[k], TextOrEmpty(text[ids[k]])>>]

\* docx and pptx: the text elements below p whose parent is a run
_collect_text_nodes_in_paragraph(p, tg, par, text) ==
    LET isT(i) == /\ tg[i] = "t"
                  /\ IsDescendant(par, i, p)
                  /\ TagOf(tg, par[i]) = "r"
    IN  EntriesOf(SelectSeq(Ids(Len(tg)), isT), text)

\* el.find("./s:t"): the first t child of el, 0 when there is none
FirstT(el, tg, par) ==
    LET ts == {i \in 1..Len(tg) : tg[i] = "t" /\ par[i] = el}
    IN  IF ts = {} THEN 0 ELSE CHOOSE i \in ts : \A j \in ts : i <= j

\* xlsx: the first t of every run child of si, else the first t child of si
_collect_nodes_shared_string(si, tg, par, text) ==
    LET isRun(i) == tg[i] = "r" /\ par[i] = si
        runs == SelectSeq(Ids(Len(tg)), isRun)
        hasT(r) == FirstT(r, tg, par) # 0
        withT == SelectSeq(runs, hasT)
    IN  IF runs # <<>>
        THEN EntriesOf([k \in 1..Len(withT) |-> FirstT(withT[k], tg, par)], text)
        ELSE IF FirstT(si, tg, par) # 0
             THEN EntriesOf(<<FirstT(si, tg, par)>>, text)
             ELSE <<>>

\* hwpx: the text elements at or below el (0: the root) that have a text
HwpxNodes(el, tg, par, text) ==
    LET isT(i) == /\ tg[i] = "t"
                  /\ el \in AncestorsOrSelf(par, i)
                  /\ text[i] # None
    IN  EntriesOf(SelectSeq(Ids(Len(tg)), isT), text)

\* hwpx: every paragraph's nodes with the texts read now, paragraphs
\* without nodes dropped; without any paragraph the whole file is one unit
_collect_paragraph_nodes(tg, par, text) ==
    LET ps == ParagraphElements("hwpx", tg, par)
        all == [k \in 1..Len(ps) |-> HwpxNodes(ps[k], tg, par, text)]
        nonEmpty(nodes) == nodes # <<>>
        paragraphs == SelectSeq(all, nonEmpty)
    IN  IF paragraphs # <<>> THEN paragraphs
        ELSE IF HwpxNodes(0, tg, par, text) # <<>>
             THEN <<HwpxNodes(0, tg, par, text)>>
             ELSE <<>>

\* the [node, text] list of unit u: hwpx carries it from the collection,
\* the other formats collect it when the loop reaches the unit
UnitNodes(f, u, tg, par, text) ==
    CASE f = "hwpx" -> u
      [] f = "xlsx" -> _collect_nodes_shared_string(u, tg, par, text)
      [] OTHER -> _collect_text_nodes_in_paragraph(u, tg, par, text)

\* the <<node, k>> positions (k-th character of the node's text) that the
\* span sp of the joined text covers
PositionsOf(nodes, sp) ==
    {<<nodes[i][1], k>> : <<i, k>> \in
        {x \in (1..Len(nodes)) \X (1..Len(Concat(TextsOf(nodes)))) :
            /\ x[2] <= Len(nodes[x[1]][2])
            /\ sp[1] <= Offsets(nodes)[x[1]][1] + x[2] - 1
            /\ Offsets(nodes)[x[1]][1] + x[2] - 1 < sp[2]}}

\* faulty variant: every raw rule match is counted
CountedRaw(found, spans) == Len(found)

\* total += len(spans)
Counted(found, spans) == Len(spans)

\* faulty variant: a unit without matches is processed like any other
SkipsUnitOnlyEmpty(nodes, found) == nodes = <<>>

\* "if not nodes: continue" and "if not found: continue"
SkipsUnit(nodes, found) == nodes = <<>> \/ found = <<>>

Init ==
    /\ today = Today0
    /\ partRun = Idle
    /\ jobs = <<>>
    /\ tmpDir = NoTmp
    /\ blocks = <<>>
    /\ cardCall = Idle
    /\ mergeCall = Idle
    /\ maskCall = Idle
    /\ findCall = Idle
    /\ cityCall = Idle
    /\ fmt \in Formats
    /\ \E n \in 1..MaxNodes :
         \E T \in Trees(fmt, n) :
           /\ tag = T.tag
           /\ parent = T.parent
           /\ nodeText \in TextsFor(T.tag, n)
           /\ nodeSpace = [i \in 1..n |-> FALSE]
    /\ units = <<>>
    /\ ui = 0
    /\ total = 0
    /\ changed = FALSE
    /\ writes = 0
    /\ last = Idle
    /\ pc = "idle"

\* the part is parsed and its units are listed
Collect ==
    /\ pc = "idle"
    /\ units' = IF fmt = "hwpx"
                THEN _collect_paragraph_nodes(tag, parent, nodeText)
                ELSE ParagraphElements(fmt, tag, parent)
    /\ ui' = 1
    /\ pc' = "units"
    /\ UNCHANGED <<today, partRun, jobs, tmpDir, blocks, cardCall, mergeCall,
                   maskCall, findCall, cityCall, fmt, tag, parent, nodeText,
                   nodeSpace, total, changed, writes, last>>

\* one turn of the loop over the units
ProcessUnit ==
    /\ pc = "units"
    /\ ui <= Len(units)
    /\ LET nodes == UnitNodes(fmt, units[ui], tag, parent, nodeText)
           joined == Concat(TextsOf(nodes))
           found == IF nodes = <<>> THEN <<>> ELSE _find_matches(joined, today)
       IN  IF SkipsUnit(nodes, found)
           THEN /\ last' = [pc |-> "skipped", unit |-> ui, nodes |-> nodes]
                /\ UNCHANGED <<nodeText, nodeSpace, total, changed, blocks>>
           ELSE LET spans == _merge_overlaps(SpansOf(found))
                    r == _apply_replacements_to_nodes(fmt, nodes, spans,
                             DefaultMask, nodeText, nodeSpace)
                IN  /\ nodeText' = r.text
                    /\ nodeSpace' = r.space
                    /\ changed' = TRUE
                    /\ total' = total + Counted(found, spans)
                    /\ blocks' = blocks \o [j \in 1..Len(spans) |->
                                               PositionsOf(nodes, spans[j])]
                    /\ last' = [pc |-> "masked", unit |-> ui, nodes |-> nodes,
                                found |-> found, spans |-> spans,
                                out |-> r.nodes]
    /\ ui' = ui + 1
    /\ UNCHANGED <<today, partRun, jobs, tmpDir, cardCall, mergeCall,
                   maskCall, findCall, cityCall, fmt, tag, parent, units,
                   writes, pc>>

\* faulty variant: the part is written back whether or not it changed
ShouldWriteAlways(flag) == TRUE

\* "if changed:" / "if file_changed:"
ShouldWrite(flag) == flag

\* after the loop the part is written back when a unit was masked
Serialize ==
    /\ pc = "units"
    /\ ui > Len(units)
    /\ writes' = IF ShouldWrite(changed) THEN writes + 1 ELSE writes
    /\ pc' = "done"
    /\ UNCHANGED <<today, partRun, jobs, tmpDir, blocks, cardCall, mergeCall,
                   maskCall, findCall, cityCall, fmt, tag, parent, nodeText,
                   nodeSpace, units, ui, total, changed, last>>

Next == Collect \/ ProcessUnit \/ Serialize

Spec == Init /\ [][Next]_vars

(***************************************************************************)
(* Properties of the unit loop (Spec)                                      *)
(***************************************************************************)

\* the loop stands at a unit for which _find_matches confirms nothing
AtNoMatchUnit ==
    /\ pc = "units"
    /\ ui <= Len(units)
    /\ _find_matches(
           Concat(TextsOf(UnitNodes(fmt, units[ui], tag, parent, nodeText))),
           today) = <<>>

\* C7: a unit for which _find_matches returns no confirmed match is not
\* mutated: the turn of the loop that handles it changes no element text and
\* no xml:space attribute, adds nothing to the redaction count and does not
\* mark the part as changed.
C7_NoMatchUnitsNotMutated ==
    [][AtNoMatchUnit =>
          /\ nodeText' = nodeText
          /\ nodeSpace' = nodeSpace
          /\ total' = total
          /\ changed' = changed]_vars

\* a unit reading "Hello world" was skipped after an earlier unit of the same
\* part had been masked
C7_Witness ==
    /\ last.pc = "skipped"
    /\ last.nodes # <<>>
    /\ Concat(TextsOf(last.nodes)) =
           <<"H", "e", "l", "l", "o", " ", "w", "o", "r", "l", "d">>
    /\ changed
    /\ total > 0

\* the elements that are fragments of unit i
UnitNodeIds(i) ==
    LET nodes == UnitNodes(fmt, units[i], tag, parent, nodeText)
    IN  {nodes[k][1] : k \in 1..Len(nodes)}

\* C9: while a part is processed every text element is a fragment of at most
\* one unit, also when a paragraph contains another paragraph.
C9_UnitIsolation ==
    pc = "units" =>
        \A i, j \in 1..Len(units) :
            i # j => UnitNodeIds(i) \intersect UnitNodeIds(j) = {}

(***************************************************************************)
(* SpecCard: is_valid_card called on card-shaped values                    *)
(***************************************************************************)

MaxCardDigits == 17

\* leading digits inside and just outside every issuer range
CardPrefixes == {<<"4">>, <<"6">>, <<"9">>, <<"1">>, <<"5", "0">>,
                 <<"5", "1">>, <<"5", "5">>, <<"5", "6">>,
                 <<"2", "2", "2", "0">>, <<"2", "2", "2", "1">>,
                 <<"2", "7", "2", "0">>, <<"2", "7", "2", "1">>,
                 <<"3", "5">>, <<"3", "4">>, <<"3", "7">>, <<"3", "6">>}

\* the same digits written full-width
Fullwidth(d) ==
    [i \in 1..Len(d) |->
        CHOOSE f \in FullwidthDigits : DigitVal(f) = DigitVal(d[i])]

\* a hyphen after every fourth digit but the last
Grouped(d) ==
    Concat([i \in 1..Len(d) |->
               IF i % 4 = 0 /\ i < Len(d) THEN <<d[i], "-">> ELSE <<d[i]>>])

\* prefix, filler digits and every possible last digit, n digits in all, in
\* both scripts, plain and grouped
CardValues ==
    UNION {LET d == pre \o Filler(n - 1 - Len(pre)) \o <<chk>>
           IN  {d, Grouped(d), Fullwidth(d), Grouped(Fullwidth(d))} :
           pre \in CardPrefixes, n \in 14..MaxCardDigits,
           chk \in AsciiDigits}

\* the options argument: None as the card rule passes it, the empty dict,
\* or a dict with both keys
CardOptions ==
    {None, <<>>} \cup
    {<<<<"luhn", l>>, <<"iin", i>>>> : l \in BOOLEAN, i \in BOOLEAN}

CardInit ==
    /\ today = Today0
    /\ partRun = Idle
    /\ jobs = <<>>
    /\ tmpDir = NoTmp
    /\ blocks = <<>>
    /\ cardCall \in {[pc |-> "call", number |-> v, options |-> o] :
                        v \in CardValues, o \in CardOptions}
    /\ mergeCall = Idle
    /\ maskCall = Idle
    /\ findCall = Idle
    /\ cityCall = Idle
    /\ fmt = "docx"
    /\ NoDoc

CardReturn ==
    /\ cardCall.pc = "call"
    /\ cardCall' = [pc |-> "done", number |-> cardCall.number,
                    options |-> cardCall.options,
                    out |-> is_valid_card(cardCall.number, cardCall.options)]
    /\ UNCHANGED <<today, partRun, jobs, tmpDir, blocks, mergeCall, maskCall,
                   findCall, cityCall, docVars>>

CardNext == CardReturn

SpecCard == CardInit /\ [][CardNext]_vars

\* the number that the first n digits of d write
PrefixValue(d, n) ==
    LET RECURSIVE Val(_)
        Val(k) == IF k = 0 THEN 0 ELSE 10 * Val(k - 1) + DigitVal(d[k])
    IN  Val(n)

\* the prefix of d is in the allowed issuer ranges
IssuerAllowed(d) ==
    IF Len(d) = 16
    THEN \/ PrefixValue(d, 1) \in {4, 6, 9}
         \/ PrefixValue(d, 2) \in 51..55
         \/ PrefixValue(d, 4) \in 2221..2720
         \/ PrefixValue(d, 2) = 35
    ELSE PrefixValue(d, 2) \in {34, 37}

\* the Luhn sum of d: every second digit from the right doubled, minus 9
\* when above 9
LuhnTotal(d) ==
    LET term(k) == LET v == DigitVal(d[Len(d) + 1 - k])
                   IN  IF k % 2 = 1 THEN v
                       ELSE IF 2 * v > 9 THEN 2 * v - 9 ELSE 2 * v
        RECURSIVE Sum(_)
        Sum(k) == IF k = 0 THEN 0 ELSE term(k) + Sum(k - 1)
    IN  Sum(Len(d))

\* C11: called with no options, is_valid_card returns true exactly when the
\* digits-only form has 15 or 16 digits, its prefix is in the allowed issuer
\* ranges and its Luhn sum is 0 modulo 10; a value with any other digit count
\* is rejected whatever the options are.
C11_CardValidator ==
    cardCall.pc = "done" =>
        LET d == SelectSeq(cardCall.number, IsDigit) IN
        /\ cardCall.options = None =>
              (cardCall.out <=> /\ Len(d) \in {15, 16}
                                /\ IssuerAllowed(d)
                                /\ LuhnTotal(d) % 10 = 0)
        /\ Len(d) \notin {15, 16} => ~cardCall.out

(***************************************************************************)
(* Further properties of the masker (SpecMask)                             *)
(***************************************************************************)

\* C12: every replaced character is the first character of the mask string,
\* one for one, and it is "*" when the mask argument is empty or None.
C12_MaskCharacter ==
    MaskDone =>
        LET c == IF maskCall.mask = None \/ Len(maskCall.mask) = 0 THEN "*"
                 ELSE Head(maskCall.mask)
        IN  \A i \in 1..Len(maskCall.nodes) :
              /\ Len(maskCall.out[i][2]) = Len(maskCall.nodes[i][2])
              /\ \A k \in 1..Len(maskCall.nodes[i][2]) :
                   LET ch == maskCall.nodes[i][2][k]
                       p == FragStart(maskCall.nodes, i) + k - 1
                   IN  /\ maskCall.out[i][2][k] # ch
                           => maskCall.out[i][2][k] = c
                       /\ (InSomeSpan(maskCall.spans, p) /\ ~Exempt(fmt, ch))
                           => /\ maskCall.out[i][2][k] = c
                              /\ nodeText[maskCall.nodes[i][1]][k] = c

\* C12 witness: the two-character mask "#x" replaced a character by "#"
C12_Witness ==
    /\ MaskDone
    /\ maskCall.mask = <<"#", "x">>
    /\ \E i \in 1..Len(maskCall.nodes) :
         \E k \in 1..Len(maskCall.nodes[i][2]) :
           /\ maskCall.nodes[i][2][k] = "7"
           /\ maskCall.out[i][2][k] = "#"

\* C13: the offset ranges computed at the start of the call partition the
\* concatenated string: the first starts at 0, each ends where the next
\* starts, each is as long as its fragment's text, the last ends at the
\* length of the concatenation; and the same ranges fit the fragment texts
\* after all spans have been applied.
C13_OffsetsPartition ==
    MaskDone =>
        LET offs == Offsets(maskCall.nodes)
            n == Len(maskCall.nodes)
        IN  /\ Len(offs) = n
            /\ n > 0 => offs[1][1] = 0
            /\ \A i \in 1..(n - 1) : offs[i][2] = offs[i + 1][1]
            /\ \A i \in 1..n :
                 /\ offs[i][2] - offs[i][1] = Len(maskCall.nodes[i][2])
                 /\ offs[i][2] - offs[i][1] = Len(maskCall.out[i][2])
            /\ n > 0 => offs[n][2] = Len(Concat(TextsOf(maskCall.nodes)))
            /\ n > 0 => offs[n][2] = Len(Concat(TextsOf(maskCall.out)))

\* C13 witness: three fragments, the middle one empty, the others rewritten
\* by the pass
C13_Witness ==
    /\ MaskDone
    /\ Len(maskCall.nodes) = 3
    /\ maskCall.nodes[2][2] = <<>>
    /\ Len(maskCall.nodes[1][2]) = 2
    /\ maskCall.out[1][2] # maskCall.nodes[1][2]
    /\ maskCall.out[3][2] # maskCall.nodes[3][2]
    /\ Offsets(maskCall.nodes)[3][1] = 2

\* characters of every kind: dashes, dash look-alikes, whitespace, others
ProbeChars == <<"-", "U+2010", "U+2011", "U+2012", "U+2013", "U+2014",
                "U+2015", "U+2212", "U+00AD", "_", "~", " ", "\t", "\n",
                "U+00A0", "7", "a", "*">>

\* what C15 says is left unchanged inside a span
KeptPerFormat(f, ch) ==
    IF f \in {"pptx", "xlsx"} THEN ch = "-"
    ELSE \/ ch \in {"-", "U+2010", "U+2011", "U+2012", "U+2013", "U+2014",
                    "U+2015", "U+2212"}
         \/ ch \in {" ", "\t", "\n", "U+00A0"}

\* C15: inside a span pptx and xlsx leave exactly the ASCII hyphen unchanged
\* (whitespace and Unicode dashes become the mask character), docx and hwpx
\* leave exactly the dashes - U+2010..U+2015 U+2212 and whitespace unchanged;
\* in every format "010-1234-5678" covered by one span becomes
\* "***-****-****".
C15_ExemptPerFormat ==
    /\ MaskDone =>
         \A i \in 1..Len(maskCall.nodes) :
           \A k \in 1..Len(maskCall.nodes[i][2]) :
             LET ch == maskCall.nodes[i][2][k]
                 p == FragStart(maskCall.nodes, i) + k - 1
             IN  InSomeSpan(maskCall.spans, p) =>
                   maskCall.out[i][2][k] =
                       IF KeptPerFormat(fmt, ch) THEN ch
                       ELSE MaskChar(maskCall.mask)
    /\ \A f \in Formats :
         /\ MaskedNodes(f, <<<<1, ProbeChars>>>>,
                        <<<<0, Len(ProbeChars)>>>>, <<"#">>)
              = <<<<1, [k \in 1..Len(ProbeChars) |->
                          IF KeptPerFormat(f, ProbeChars[k])
                          THEN ProbeChars[k] ELSE "#"]>>>>
         /\ MaskedNodes(f, <<<<1, <<"0", "1", "0", "-", "1", "2", "3", "4",
                                    "-", "5", "6", "7", "8">>>>>>,
                        <<<<0, 13>>>>, <<"*">>)
              = <<<<1, <<"*", "*", "*", "-", "*", "*", "*", "*",
                         "-", "*", "*", "*", "*">>>>>>

\* C15 witness: pptx or xlsx replaced a Unicode dash, a space or a no-break
\* space that a span covered
C15_Witness ==
    /\ MaskDone
    /\ fmt \in {"pptx", "xlsx"}
    /\ \E i \in 1..Len(maskCall.nodes) :
         \E k \in 1..Len(maskCall.nodes[i][2]) :
           /\ maskCall.nodes[i][2][k] \in {"U+2013", " ", "U+00A0"}
           /\ maskCall.out[i][2][k] = MaskChar(maskCall.mask)

\* C16: after the docx masker has run on a paragraph every w:t node of the
\* paragraph has a non-empty text, an empty result being written as a single
\* space, and every node whose written text starts with a space, ends with a
\* space or contains U+00A0 carries xml:space="preserve".
C16_DocxWriteBack ==
    (MaskDone /\ fmt = "docx") =>
        \A i \in 1..Len(maskCall.nodes) :
            LET node == maskCall.nodes[i][1]
                w == nodeText[node]
            IN  /\ w # None
                /\ Len(w) >= 1
                /\ maskCall.out[i][2] = <<>> => w = <<" ">>
                /\ (\/ w[1] = " "
                    \/ w[Len(w)] = " "
                    \/ \E k \in 1..Len(w) : w[k] = "U+00A0")
                       => nodeSpace[node]

\* C16 witness: a docx paragraph with an empty w:t, written as a preserved
\* single space, next to a w:t that holds a no-break space
C16_Witness ==
    /\ MaskDone
    /\ fmt = "docx"
    /\ \E i, j \in 1..Len(maskCall.nodes) :
         /\ maskCall.nodes[i][2] = <<>>
         /\ nodeText[maskCall.nodes[i][1]] = <<" ">>
         /\ nodeSpace[maskCall.nodes[i][1]]
         /\ maskCall.nodes[j][2] = <<"U+00A0">>
         /\ nodeSpace[maskCall.nodes[j][1]]

(***************************************************************************)
(* Further properties of the unit loop (Spec)                              *)
(***************************************************************************)

\* two raw matches overlap or touch
Touching(a, b) == a[2][1] <= b[2][2] /\ b[2][1] <= a[2][2]

\* C14: the total of the run is the number of merged spans of the units that
\* had a confirmed match, not the number of raw matches: overlapping or
\* touching matches count once, and every masked block of the output is
\* counted exactly once.
C14_RedactionCount ==
    /\ total = Len(blocks)
    /\ last.pc = "masked" =>
         /\ last.spans = _merge_overlaps(SpansOf(last.found))
         /\ \A a, b \in 1..Len(last.found) :
              Touching(last.found[a], last.found[b]) =>
                \E j \in 1..Len(last.spans) :
                  /\ last.spans[j][1] <= last.found[a][2][1]
                  /\ last.found[a][2][2] <= last.spans[j][2]
                  /\ last.spans[j][1] <= last.found[b][2][1]
                  /\ last.found[b][2][2] <= last.spans[j][2]
    /\ \A i, j \in 1..Len(blocks) :
         i # j => blocks[i] \intersect blocks[j] = {}

\* C19: once redact_hwpx has processed all paragraphs of a part, every
\* character position that a confirmed span of a processed paragraph covered
\* holds the mask character or an exempt character in the node's final text:
\* the write-back of a later paragraph never restores what an earlier
\* paragraph masked.
C19_MaskingNeverUndone ==
    (fmt = "hwpx" /\ pc = "units" /\ ui > Len(units)) =>
        \A j \in 1..Len(blocks) :
          \A pos \in blocks[j] :
            LET ch == nodeText[pos[1]][pos[2]] IN
            ch = MaskChar(DefaultMask) \/ Exempt("hwpx", ch)

\* C18: a part is written back at most once, only after all its units have
\* been processed, and exactly when one of its units had a confirmed match; a
\* part without a match is never written.
C18_SerializedOncePerPart ==
    /\ writes <= 1
    /\ pc # "done" => writes = 0
    /\ pc = "done" =>
         /\ ui > Len(units)
         /\ writes = 1 <=> Len(blocks) > 0
         /\ Len(blocks) = 0 => ~changed

\* C18 witness: a part with two units side by side, the second of which had a
\* match, was written once
C18_Witness ==
    /\ pc = "done"
    /\ writes = 1
    /\ Len(units) >= 2
    /\ total >= 2
    /\ last.pc = "masked"
    /\ last.unit >= 2
    /\ \A i \in 1..Len(tag) : tag[i] = "p" => parent[i] = 0

(***************************************************************************)
(* SpecRrn: _find_matches on texts that hold a national-ID shaped number   *)
(***************************************************************************)

\* how many further digits may follow the thirteen
MaxRrnTail == 1

\* birth dates: valid, 29 February of a leap and of a common year, a day
\* that no month has
RrnBirths == {<<"9", "0", "0", "1", "0", "1">>, <<"0", "0", "0", "2", "2", "9">>,
              <<"9", "9", "0", "2", "2", "9">>, <<"8", "8", "1", "1", "3", "1">>}

\* gender digit, five serial digits and every possible check digit, in
\* both scripts
RrnSerials ==
    UNION {LET t == <<g>> \o Filler(5) \o <<chk>> IN {t, Fullwidth(t)} :
           g \in {"1", "3"}, chk \in AsciiDigits}

RrnTexts ==
    {pre \o b \o sep \o t \o Filler(n) :
        pre \in {<<>>, <<"n", "o", " ">>}, b \in RrnBirths,
        sep \in {<<>>, <<"-">>}, t \in RrnSerials, n \in 0..MaxRrnTail}

RrnInit ==
    /\ today = Today0
    /\ partRun = Idle
    /\ jobs = <<>>
    /\ tmpDir = NoTmp
    /\ findCall \in {[pc |-> "call", text |-> t] : t \in RrnTexts}
    /\ mergeCall = Idle
    /\ maskCall = Idle
    /\ cardCall = Idle
    /\ cityCall = Idle
    /\ blocks = <<>>
    /\ fmt = "docx"
    /\ NoDoc

RrnFind ==
    /\ findCall.pc = "call"
    /\ findCall' = [pc |-> "done", text |-> findCall.text,
                    found |-> _find_matches(findCall.text, today)]
    /\ UNCHANGED <<today, partRun, jobs, tmpDir, blocks, cardCall, mergeCall,
                   maskCall, cityCall, docVars>>

RrnNext == RrnFind

SpecRrn == RrnInit /\ [][RrnNext]_vars

\* the check digit that the first twelve digits of d call for
CheckDigit(d) ==
    LET w == <<2, 3, 4, 5, 6, 7, 8, 9, 2, 3, 4, 5>>
        RECURSIVE Sum(_)
        Sum(k) == IF k = 0 THEN 0 ELSE DigitVal(d[k]) * w[k] + Sum(k - 1)
    IN  (11 - (Sum(12) % 11)) % 10

\* C17: every match that _find_matches emits for the rule rrn has thirteen
\* digits, the last of which is (11 - (weighted sum of the first twelve
\* mod 11)) mod 10: the rule's validator, called with the value alone,
\* enforces the checksum.
C17_RrnChecksum ==
    findCall.pc = "done" =>
        \A i \in 1..Len(findCall.found) :
            findCall.found[i][1] = "rrn" =>
                LET d == SelectSeq(findCall.found[i][3], IsDigit) IN
                /\ Len(d) = 13
                /\ DigitVal(d[13]) = CheckDigit(d)

\* C17 witness: a hyphenated number was emitted for the rule rrn, taken out
\* of a longer text
C17_Witness ==
    /\ findCall.pc = "done"
    /\ \E i \in 1..Len(findCall.found) :
         /\ findCall.found[i][1] = "rrn"
         /\ Len(findCall.found[i][3]) = 14
         /\ Len(findCall.text) > 14

(***************************************************************************)
(* SpecShared: two invocations of redact_docx with different inputs and    *)
(* outputs, interleaved in one working directory                           *)
(***************************************************************************)

\* the part names an input archive may hold: word/document.xml,
\* word/header1.xml, ... in the order _iter_doc_parts yields them
MaxParts == 2

Jobs == {1, 2}

\* a file of the temp directory: its name, the invocation whose input it was
\* extracted from, whether its text has been redacted
FileOf(name, owner, red) == [name |-> name, owner |-> owner, red |-> red]

SharedInit ==
    /\ today = Today0
    /\ partRun = Idle
    /\ jobs \in {[r \in Jobs |-> [pc |-> "start", input |-> inp[r], k |-> 1,
                                  out |-> {}]] :
                    inp \in [Jobs -> (SUBSET (1..MaxParts)) \ {{}}]}
    /\ tmpDir = NoTmp
    /\ blocks = <<>>
    /\ cardCall = Idle
    /\ mergeCall = Idle
    /\ maskCall = Idle
    /\ findCall = Idle
    /\ cityCall = Idle
    /\ fmt = "docx"
    /\ NoDoc

SharedFrame ==
    UNCHANGED <<today, partRun, blocks, cardCall, mergeCall, maskCall,
                findCall, cityCall, docVars>>

\* if os.path.exists(tmp_dir): shutil.rmtree(tmp_dir)
RemoveOld(r) ==
    /\ jobs[r].pc = "start"
    /\ tmpDir' = NoTmp
    /\ jobs' = [jobs EXCEPT ![r].pc = "cleaned"]
    /\ SharedFrame

\* os.makedirs(tmp_dir): FileExistsError when the directory is there
MakeDirs(r) ==
    /\ jobs[r].pc = "cleaned"
    /\ IF tmpDir.exists
       THEN /\ jobs' = [jobs EXCEPT ![r].pc = "raised"]
            /\ UNCHANGED tmpDir
       ELSE /\ jobs' = [jobs EXCEPT ![r].pc = "made"]
            /\ tmpDir' = [exists |-> TRUE, files |-> {}]
    /\ SharedFrame

\* z.extractall(tmp_dir): every part of the input is written, over a file of
\* the same name if there is one
Extract(r) ==
    /\ jobs[r].pc = "made"
    /\ tmpDir' = [exists |-> TRUE,
                  files |-> {f \in tmpDir.files : f.name \notin jobs[r].input}
                            \cup {FileOf(n, r, FALSE) : n \in jobs[r].input}]
    /\ jobs' = [jobs EXCEPT ![r].pc = "parts", ![r].k = 1]
    /\ SharedFrame

\* one turn of "for xml_path in _iter_doc_parts(tmp_dir)": the part named k,
\* if it is on disk now, is read, redacted and written back
RewritePart(r) ==
    /\ jobs[r].pc = "parts"
    /\ jobs[r].k <= MaxParts
    /\ tmpDir' = [tmpDir EXCEPT !.files =
                     {IF f.name = jobs[r].k THEN FileOf(f.name, f.owner, TRUE)
                      ELSE f : f \in tmpDir.files}]
    /\ jobs' = [jobs EXCEPT ![r].k = jobs[r].k + 1]
    /\ SharedFrame

\* the output archive is written from os.walk(tmp_dir)
Rezip(r) ==
    /\ jobs[r].pc = "parts"
    /\ jobs[r].k > MaxParts
    /\ jobs' = [jobs EXCEPT ![r].pc = "zipped", ![r].out = tmpDir.files]
    /\ UNCHANGED tmpDir
    /\ SharedFrame

\* shutil.rmtree(tmp_dir, ignore_errors=True)
RemoveTmp(r) ==
    /\ jobs[r].pc = "zipped"
    /\ tmpDir' = NoTmp
    /\ jobs' = [jobs EXCEPT ![r].pc = "done"]
    /\ SharedFrame

SharedNext ==
    \E r \in Jobs :
        \/ RemoveOld(r)
        \/ MakeDirs(r)
        \/ Extract(r)
        \/ RewritePart(r)
        \/ Rezip(r)
        \/ RemoveTmp(r)

SpecShared == SharedInit /\ [][SharedNext]_vars

\* C20: when two invocations on different inputs and outputs interleave in
\* one working directory, each output archive contains the parts of its own
\* input, redacted, and nothing else, and no step of one invocation deletes
\* or overwrites a file of the other.
C20_RunsDoNotMix ==
    /\ \A r \in Jobs :
         jobs[r].pc \in {"zipped", "done"} =>
             jobs[r].out = {FileOf(n, r, TRUE) : n \in jobs[r].input}
    /\ \A r \in Jobs :
         jobs[r].pc \in {"parts", "zipped"} =>
             \A n \in jobs[r].input :
                 \E f \in tmpDir.files : f.name = n /\ f.owner = r

(***************************************************************************)
(* SpecParts: one run of redact_docx / redact_hwpx / redact_pptx /         *)
(* redact_xlsx over the XML parts of a document, some of which fail.       *)
(* A part is a record: parse is "ok" or the exception its parse raises     *)
(* ("ParseError": the parser's syntax error, ET.ParseError or lxml's       *)
(* XMLSyntaxError; "Other": any other exception, such as the ValueError    *)
(* expat raises for a declared multi-byte encoding); n is the number of    *)
(* its logical units with a confirmed match (units without one are         *)
(* skipped and change nothing); bad is the unit at which                   *)
(* _apply_replacements_to_nodes raises, 0 when none does.  The text of a   *)
(* part, in memory or in a file, is the set of its units that are masked.  *)
(***************************************************************************)

MaxUnits == 2

PartKinds ==
    {[parse |-> e, n |-> 0, bad |-> 0] : e \in {"ParseError", "Other"}}
    \cup {x \in [parse : {"ok"}, n : 0..MaxUnits, bad : 0..MaxUnits] :
            x.bad <= x.n}

PartLists == UNION {[1..len -> PartKinds] : len \in 1..MaxParts}

\* faulty variant: redact_hwpx skips a part on every exception of the parse
CaughtAtParseAny(f, exc) == f \in {"docx", "hwpx"}

\* whether the part loop of format f catches exception exc of the parse:
\* docx "except Exception", hwpx "except ET.ParseError: continue", pptx and
\* xlsx have no handler
CaughtAtParse(f, exc) ==
    CASE f = "docx" -> TRUE
      [] f = "hwpx" -> exc = "ParseError"
      [] OTHER -> FALSE

\* whether an exception raised while the units are processed is caught:
\* only docx has the unit loop inside its try block
CaughtInUnits(f) == f = "docx"

PartsInit ==
    /\ today = Today0
    /\ partRun \in {[pc |-> "parse", parts |-> ps, k |-> 1, j |-> 1,
                     mem |-> {}, changed |-> FALSE,
                     disk |-> [i \in 1..Len(ps) |-> {}],
                     staged |-> <<>>, written |-> FALSE, archive |-> <<>>] :
                        ps \in PartLists}
    /\ jobs = <<>>
    /\ tmpDir = NoTmp
    /\ blocks = <<>>
    /\ cardCall = Idle
    /\ mergeCall = Idle
    /\ maskCall = Idle
    /\ findCall = Idle
    /\ cityCall = Idle
    /\ fmt \in Formats
    /\ NoDoc

PartsFrame ==
    UNCHANGED <<today, jobs, tmpDir, blocks, cardCall, mergeCall, maskCall,
                findCall, cityCall, docVars>>

\* the next part is read and parsed; changed = False
ParsePart ==
    /\ partRun.pc = "parse"
    /\ partRun.k <= Len(partRun.parts)
    /\ LET part == partRun.parts[partRun.k] IN
         partRun' =
            IF part.parse = "ok"
            THEN [partRun EXCEPT !.pc = "units", !.j = 1, !.mem = {},
                                 !.changed = FALSE]
            ELSE IF CaughtAtParse(fmt, part.parse)
                 THEN [partRun EXCEPT !.k = partRun.k + 1]
                 ELSE [partRun EXCEPT !.pc = "raised"]
    /\ PartsFrame

\* one unit with a match: its nodes are masked in the tree and changed is
\* set, or the masker raises (with the unit's nodes assigned or not)
MaskPartUnit ==
    /\ partRun.pc = "units"
    /\ partRun.j <= partRun.parts[partRun.k].n
    /\ IF partRun.parts[partRun.k].bad = partRun.j
       THEN \E m \in {partRun.mem, partRun.mem \cup {partRun.j}} :
               partRun' =
                  IF CaughtInUnits(fmt)
                  THEN [partRun EXCEPT !.pc = "parse", !.k = partRun.k + 1,
                                       !.mem = m]
                  ELSE [partRun EXCEPT !.pc = "raised", !.mem = m]
       ELSE partRun' = [partRun EXCEPT !.mem = partRun.mem \cup {partRun.j},
                                       !.changed = TRUE,
                                       !.j = partRun.j + 1]
    /\ PartsFrame

\* after the last unit: "if changed:" the tree is written over the file
WritePart ==
    /\ partRun.pc = "units"
    /\ partRun.j > partRun.parts[partRun.k].n
    /\ partRun' =
          [partRun EXCEPT !.pc = "parse", !.k = partRun.k + 1,
                          !.disk[partRun.k] =
                              IF ShouldWrite(partRun.changed)
                              THEN partRun.mem
                              ELSE partRun.disk[partRun.k]]
    /\ PartsFrame

\* after the last part the files of the temp directory are packed: into the
\* output archive, or for xlsx into redacted.zip
ZipParts ==
    /\ partRun.pc = "parse"
    /\ partRun.k > Len(partRun.parts)
    /\ partRun' =
          IF fmt = "xlsx"
          THEN [partRun EXCEPT !.pc = "zipped", !.staged = partRun.disk]
          ELSE [partRun EXCEPT !.pc = "zipped", !.staged = partRun.disk,
                               !.written = TRUE, !.archive = partRun.disk]
    /\ PartsFrame

\* the temp directory is removed; xlsx moves redacted.zip to the output
FinishRun ==
    /\ partRun.pc = "zipped"
    /\ partRun' =
          IF fmt = "xlsx"
          THEN [partRun EXCEPT !.pc = "done", !.written = TRUE,
                               !.archive = partRun.staged]
          ELSE [partRun EXCEPT !.pc = "done"]
    /\ PartsFrame

PartsNext ==
    \/ ParsePart
    \/ MaskPartUnit
    \/ WritePart
    \/ ZipParts
    \/ FinishRun

SpecParts == PartsInit /\ [][PartsNext]_vars

Faulty(part) == part.parse # "ok" \/ part.bad # 0

\* the archive of a run that went past its failing parts: those parts as
\* extracted, every other part with all its units masked
Expected(ps) ==
    [i \in 1..Len(ps) |-> IF Faulty(ps[i]) THEN {} ELSE 1..ps[i].n]

\* no part of the archive has some of its processed units masked and
\* others not
NoHalfPart ==
    partRun.written =>
        \A i \in 1..Len(partRun.parts) :
            partRun.archive[i] \in {{}, 1..partRun.parts[i].n}

\* a failing part's file stays as extracted
FailingPartUntouched ==
    \A i \in 1..Len(partRun.parts) :
        Faulty(partRun.parts[i]) => partRun.disk[i] = {}

\* C21 as stated: when a part fails (parse error or exception while its
\* units are processed), redact_docx and redact_hwpx leave its file as
\* extracted, go on with the remaining parts and write the output archive;
\* redact_pptx and redact_xlsx propagate the error and write no archive; no
\* archive holds a part with only some of its processed units written back.
C21_FailingPartAsStated ==
    /\ fmt \in {"docx", "hwpx"} =>
          /\ partRun.pc # "raised"
          /\ partRun.pc = "done" => partRun.written
          /\ partRun.written => partRun.archive = Expected(partRun.parts)
    /\ fmt \in {"pptx", "xlsx"} =>
          ((\E i \in 1..Len(partRun.parts) : Faulty(partRun.parts[i]))
              => ~partRun.written /\ partRun.pc \notin {"zipped", "done"})
    /\ FailingPartUntouched
    /\ NoHalfPart

\* the failures that end the run of format f: none in docx; in hwpx every
\* failure but the parser's syntax error; every failure in pptx and xlsx
Aborts(f, part) ==
    CASE f = "docx" -> FALSE
      [] f = "hwpx" -> part.parse = "Other" \/ part.bad # 0
      [] OTHER -> Faulty(part)

\* C21 (amended): redact_docx goes past every failing part, redact_hwpx
\* only past a part whose parse raises the parser's syntax error; such a
\* part stays as extracted, the remaining parts are processed and the
\* output archive is written.  Every other failure (in hwpx: another
\* exception of the parse, or an exception while the units are processed;
\* in pptx and xlsx: any) propagates and no output archive is written.  In
\* no format does the archive hold a part with only some of its processed
\* units written back.
C21_FailingPart ==
    /\ (\E i \in 1..Len(partRun.parts) : Aborts(fmt, partRun.parts[i])) =>
          ~partRun.written /\ partRun.pc \notin {"zipped", "done"}
    /\ (\A i \in 1..Len(partRun.parts) : ~Aborts(fmt, partRun.parts[i])) =>
          /\ partRun.pc # "raised"
          /\ partRun.pc = "done" => partRun.written
          /\ partRun.written => partRun.archive = Expected(partRun.parts)
    /\ FailingPartUntouched
    /\ NoHalfPart

\* redact_hwpx has written its first part back and the masker raises in the
\* second unit of the second part: the error leaves the run
C21_Witness ==
    /\ fmt = "hwpx"
    /\ partRun.pc = "raised"
    /\ partRun.k = 2
    /\ partRun.parts[2].bad = 2
    /\ partRun.mem # {}
    /\ partRun.disk[1] # {}

====
